---- MODULE Spec2Model ----
(***************************************************************************)
(* Model of src/main.py: the branch lister (get_branches), the branch      *)
(* detail fetcher (get_branch_details) and the entry point that chains     *)
(* them and writes branches.json.                                          *)
(*                                                                         *)
(* The remote API is an input: pageApi maps a page number to the response  *)
(* of GET .../branches?page=N, detailApi maps a branch name to the         *)
(* response of GET .../branches/{name}.  Both are fixed for a run.         *)
(*                                                                         *)
(* The two ThreadPoolExecutor pools and concurrent.futures.as_completed    *)
(* are modelled by their documented behaviour: tasks are started in        *)
(* submission order by at most max_workers workers; as_completed first     *)
(* yields, in no particular order, the futures that were already finished  *)
(* when the iteration began, then the others in the order they finish;     *)
(* leaving the with-block waits for every submitted task.                  *)
(*                                                                         *)
(* Console output (print, tqdm) is not modelled.                           *)
(***************************************************************************)
EXTENDS Integers, Sequences, FiniteSets

---------------------------------------------------------------------------
(* Bounds.  PerPage, LastPage, MaxWorkers and DefaultWorkers are scaled    *)
(* stand-ins for per_page=100 (line 20), range(2, 11) (line 38),           *)
(* max_workers=5 (line 35) and the default pool size of line 79.           *)

PerPage ==
  2

LastPage ==
  3

MaxWorkers ==
  1

DefaultWorkers ==
  2

\* longest commit message enumerated by InitMsg
MaxMsgLen ==
  6

---------------------------------------------------------------------------
(* Enumerated inputs                                                       *)

BranchNames == <<"main", "dev", "feat">>

Names == {BranchNames[i] : i \in 1..Len(BranchNames)}

\* page numbers the model can represent (one more than the code asks for)
PageIds == 1..(LastPage + 1)

\* the j-th item of page p as the API serialises it: {name, commit: {sha}}
CatalogueItem(p, j) ==
  [name   |-> BranchNames[((p + j - 2) % Len(BranchNames)) + 1],
   commit |-> [sha |-> (p - 1) * (PerPage + 1) + j]]

CatalogueItems(p, n) == [j \in 1..n |-> CatalogueItem(p, j)]

\* a list of n >= 1 items whose last item has no 'name' key
MalformedItems(p, n) ==
  [j \in 1..n |-> IF j = n THEN [commit |-> CatalogueItem(p, j).commit]
                           ELSE CatalogueItem(p, j)]

HTTP_OK == 200
HTTP_NOT_FOUND == 404

\* response k of GET .../branches?per_page=..&page=p:
\*   k = -2 : a failure status
\*   k = -1 : a list of badLen items whose last item lacks a key
\*   k >= 0 : a list of k well-formed items
PageResponse(p, k, badLen) ==
  CASE k = -2 -> [status |-> HTTP_NOT_FOUND, json |-> <<>>]
    [] k = -1 -> [status |-> HTTP_OK, json |-> MalformedItems(p, badLen)]
    [] OTHER  -> [status |-> HTTP_OK, json |-> CatalogueItems(p, k)]

\* the listing endpoints enumerated: any response of at most PerPage items
\* for page 1; a failure, an empty list or a list of one item for each of
\* the pages 2..LastPage, and for page 2 also a malformed list of two
\* items; and one more non-empty page behind them
PageApis ==
  {[p \in PageIds |->
      IF p = 1 THEN PageResponse(p, k[p], PerPage)
      ELSE IF p \in 2..LastPage THEN PageResponse(p, k[p], 2)
      ELSE PageResponse(p, 1, 2)] :
    k \in {f \in [1..LastPage -> -2..PerPage] :
             \A p \in 2..LastPage : f[p] <= 1 /\ (p > 2 => f[p] # -1)}}

M_Merge   == <<"M","e","r","g","e">>
M_MergePR == <<"M","e","r","g","e"," ","p","u","l","l"," ","r","e","q","u","e","s","t"," ","#","1">>
M_mergefoo == <<"m","e","r","g","e"," ","f","o","o">>
M_FixBug  == <<"F","i","x"," ","b","u","g">>

CatalogueMessage(n) ==
  CASE n = "main" -> M_MergePR
    [] n = "dev"  -> M_FixBug
    [] OTHER      -> M_mergefoo

CatalogueLogin(n) ==
  CASE n = "main" -> "alice"
    [] n = "dev"  -> "bob"
    [] OTHER      -> "carol"

CatalogueDate(n) ==
  CASE n = "main" -> "2024-01-01T00:00:00Z"
    [] n = "dev"  -> "2024-02-02T00:00:00Z"
    [] OTHER      -> "2024-03-03T00:00:00Z"

\* the JSON object of GET .../branches/{name}; commit.sha is the branch's
\* head when the detail request is served (0 here), which need not be the
\* sha the listing reported
DetailJson(n, msg) ==
  [name      |-> n,
   commit    |-> [sha    |-> 0,
                  author |-> [login |-> CatalogueLogin(n)],
                  commit |-> [author  |-> [date |-> CatalogueDate(n)],
                              message |-> msg]],
   protected |-> (n = "main")]

\* the same object with commit.author null (a commit of no known account)
DetailJsonNoAuthor(n, msg) ==
  [DetailJson(n, msg) EXCEPT !.commit.author = <<>>]

\* response k of GET .../branches/{name}: 1 a failure status, 2 a complete
\* object, 3 an object whose commit.author is null
DetailResponse(n, k, msg) ==
  CASE k = 1 -> [status |-> HTTP_NOT_FOUND, json |-> <<>>]
    [] k = 2 -> [status |-> HTTP_OK, json |-> DetailJson(n, msg)]
    [] OTHER -> [status |-> HTTP_OK, json |-> DetailJsonNoAuthor(n, msg)]

\* the detail endpoints enumerated: the first branch name fails, succeeds
\* or has a commit of no known account; the second fails or succeeds; the
\* others succeed
DetailKinds(n) ==
  IF n = BranchNames[1] THEN 1..3
  ELSE IF n = BranchNames[2] THEN 1..2
  ELSE {2}

DetailApis ==
  {[n \in Names |-> DetailResponse(n, k[n], CatalogueMessage(n))] :
    k \in {f \in [Names -> 1..3] : \A n \in Names : f[n] \in DetailKinds(n)}}

---------------------------------------------------------------------------
(* Pure helpers                                                            *)

\* response.raise_for_status() of lines 21, 32 and 62 raises
RaisesForStatus(response) == response.status >= 400

\* whether lines 25 / 47 can read item['name'] and item['commit']['sha']
HasRefKeys(item) ==
  /\ "name" \in DOMAIN item
  /\ "commit" \in DOMAIN item
  /\ "sha" \in DOMAIN item.commit

\* lines 25 and 47: {'branch_name': branch['name'], 'commit_sha': branch['commit']['sha']}
ToRef(item) ==
  [branch_name |-> item.name, commit_sha |-> item.commit.sha]

\* lines 24-27 and 46-49: the list comprehension over one page's items
ToRefs(items) == [j \in 1..Len(items) |-> ToRef(items[j])]

\* whether that comprehension raises KeyError
RefsRaise(items) == \E j \in 1..Len(items) : ~HasRefKeys(items[j])

\* str.startswith of line 68
StartsWith(msg, prefix) ==
  /\ Len(msg) >= Len(prefix)
  /\ SubSeq(msg, 1, Len(prefix)) = prefix

\* IsMerged that ignores the case of the first letter
IsMergedAnyCase(msg) ==
  \/ StartsWith(msg, M_Merge)
  \/ StartsWith(msg, <<"m", "e", "r", "g", "e">>)

\* line 68: details['commit']['commit']['message'].startswith('Merge')
IsMerged(msg) == StartsWith(msg, M_Merge)

\* whether lines 66-69 can read every field they subscript
HasDetailKeys(details) ==
  /\ "commit" \in DOMAIN details
  /\ "protected" \in DOMAIN details
  /\ "author" \in DOMAIN details.commit
  /\ "login" \in DOMAIN details.commit.author
  /\ "commit" \in DOMAIN details.commit
  /\ "author" \in DOMAIN details.commit.commit
  /\ "date" \in DOMAIN details.commit.commit.author
  /\ "message" \in DOMAIN details.commit.commit

\* UserDetails that takes name and sha from the detail object, not the BranchRef
UserDetailsFromResponse(details, branch) ==
  [author       |-> details.commit.author.login,
   last_updated |-> details.commit.commit.author.date,
   is_merged    |-> StartsWith(details.commit.commit.message, M_Merge),
   is_protected |-> details.protected,
   branch_name  |-> details.name,
   commit_sha   |-> details.commit.sha]

\* lines 65-71: the record built from a detail object and its BranchRef
UserDetails(details, branch) ==
  [author       |-> details.commit.author.login,
   last_updated |-> details.commit.commit.author.date,
   is_merged    |-> IsMerged(details.commit.commit.message),
   is_protected |-> details.protected,
   branch_name  |-> branch.branch_name,
   commit_sha   |-> branch.commit_sha]

\* lines 58-75: fetch_branch_details; <<record>> or <<>> (None) when the
\* request or a field access raised
FetchBranchDetails(response, branch) ==
  IF RaisesForStatus(response) \/ ~HasDetailKeys(response.json)
    THEN <<>>
    ELSE <<UserDetails(response.json, branch)>>

\* lines 30-33: fetch_page; the future holds the parsed list or an exception
FetchPage(response) ==
  IF RaisesForStatus(response)
    THEN [exc |-> TRUE, value |-> <<>>]
    ELSE [exc |-> FALSE, value |-> response.json]

Min(S) == CHOOSE x \in S : \A y \in S : x <= y

---------------------------------------------------------------------------
(* State                                                                   *)

VARIABLES
  pageApi,            \* page number -> response of the listing endpoint
  detailApi,          \* branch name -> response of the detail endpoint
  pc,                 \* position of the main thread
  all_branches,       \* get_branches' local list (line 17)
  branches,           \* __main__'s branches (line 105)
  pageTask,           \* page -> "none" | "queued" | "running" | "done"
  pageResult,         \* page -> result held by the page's future
  pagePre,            \* futures finished when as_completed began, not yet yielded
  pageFin,            \* futures finished since, in finishing order, not yet yielded
  pageReq,            \* page -> number of requests issued for it
  detTask,            \* task index -> "queued" | "running" | "done"
  detResult,          \* task index -> result held by the task's future
  detPre,             \* as pagePre, for the detail pool
  detFin,             \* as pageFin, for the detail pool
  detReq,             \* task index -> number of detail requests issued
  all_branch_details, \* get_branch_details' local list (line 77)
  file,               \* contents of branches.json
  fileWrites,         \* number of times branches.json was written
  recording,          \* whether this run keeps the three histories below
  pageSeen,           \* history: pages in the order as_completed yielded them
  detDone,            \* history: detail tasks in the order they finished
  detPreCount         \* history: how many of them had finished when line 85 began

apiVars    == <<pageApi, detailApi>>
listVars   == <<all_branches, branches>>
pageVars   == <<pageTask, pageResult, pagePre, pageFin, pageReq>>
detVars    == <<detTask, detResult, detPre, detFin, detReq>>
outVars    == <<all_branch_details, file, fileWrites>>
histVars   == <<recording, pageSeen, detDone, detPreCount>>
vars == <<pageApi, detailApi, pc, all_branches, branches, pageTask, pageResult,
          pagePre, pageFin, pageReq, detTask, detResult, detPre, detFin, detReq,
          all_branch_details, file, fileWrites, recording, pageSeen, detDone,
          detPreCount>>

\* history h after event x, in a run that keeps histories
Recorded(h, x) == IF recording THEN Append(h, x) ELSE h

\* a future that has not run yet
NoResult == [exc |-> FALSE, value |-> <<>>]

\* everything but the API: the state when __main__ starts
InitProgram ==
  /\ pc = "start"
  /\ all_branches = <<>>
  /\ branches = <<>>
  /\ pageTask = [p \in PageIds |-> "none"]
  /\ pageResult = [p \in PageIds |-> NoResult]
  /\ pagePre = {}
  /\ pageFin = <<>>
  /\ pageReq = [p \in PageIds |-> 0]
  /\ detTask = <<>>
  /\ detResult = <<>>
  /\ detPre = {}
  /\ detFin = <<>>
  /\ detReq = <<>>
  /\ all_branch_details = <<>>
  /\ file = <<>>
  /\ fileWrites = 0
  /\ pageSeen = <<>>
  /\ detDone = <<>>
  /\ detPreCount = 0

Init ==
  /\ pageApi \in PageApis
  /\ detailApi \in DetailApis
  /\ recording = FALSE
  /\ InitProgram

---------------------------------------------------------------------------
(* get_branches, lines 15-53                                               *)

\* GetFirstPage without line 21: the status of the page-1 response is ignored
GetFirstPageNoRaise ==
  /\ pc = "start"
  /\ pageReq' = [pageReq EXCEPT ![1] = @ + 1]
  /\ IF RefsRaise(pageApi[1].json)
       THEN /\ pc' = "aborted"
            /\ UNCHANGED all_branches
       ELSE /\ pc' = "first_page"
            /\ all_branches' = all_branches \o ToRefs(pageApi[1].json)
  /\ UNCHANGED <<apiVars, branches, pageTask, pageResult, pagePre, pageFin,
                 detVars, outVars>>
  /\ UNCHANGED histVars

\* lines 104-105, 16-27: the page-1 request.  A failure status or an item
\* without its keys raises out of get_branches and out of __main__.
GetFirstPage ==
  /\ pc = "start"
  /\ pageReq' = [pageReq EXCEPT ![1] = @ + 1]
  /\ IF RaisesForStatus(pageApi[1]) \/ RefsRaise(pageApi[1].json)
       THEN /\ pc' = "aborted"
            /\ UNCHANGED all_branches
       ELSE /\ pc' = "first_page"
            /\ all_branches' = all_branches \o ToRefs(pageApi[1].json)
  /\ UNCHANGED <<apiVars, branches, pageTask, pageResult, pagePre, pageFin,
                 detVars, outVars>>
  /\ UNCHANGED histVars

\* MorePages with the comparison of line 29 turned into "non-empty"
MorePagesNonEmpty(first) == Len(first) > 0

\* line 29: len(branches) == 100, on the page-1 list
MorePages(first) == Len(first) = PerPage

\* LaterPages with the range's end one too far
LaterPagesOneMore == 2..(LastPage + 1)

\* line 38: range(2, 11)
LaterPages == 2..LastPage

\* lines 29, 35-39: the page tasks are submitted to the pool
SubmitPages ==
  /\ pc = "first_page"
  /\ MorePages(pageApi[1].json)
  /\ pageTask' = [p \in PageIds |-> IF p \in LaterPages THEN "queued" ELSE pageTask[p]]
  /\ pc' = "pages_submitted"
  /\ UNCHANGED <<apiVars, listVars, pageResult, pagePre, pageFin, pageReq,
                 detVars, outVars>>
  /\ UNCHANGED histVars

\* lines 29, 53, 105-106: no further page; get_branches returns
ReturnFirstPage ==
  /\ pc = "first_page"
  /\ ~MorePages(pageApi[1].json)
  /\ branches' = all_branches
  /\ pc' = "details"
  /\ UNCHANGED <<apiVars, all_branches, pageVars, detVars, outVars>>
  /\ UNCHANGED histVars

\* PageWorkerFree of a pool without a worker limit
PageWorkerAlwaysFree ==
  TRUE

\* a pool worker takes the oldest queued task and issues its request (line 31)
PageWorkerFree ==
  Cardinality({p \in PageIds : pageTask[p] = "running"}) < MaxWorkers

StartPage(p) ==
  /\ pageTask[p] = "queued"
  /\ p = Min({q \in PageIds : pageTask[q] = "queued"})
  /\ PageWorkerFree
  /\ pageTask' = [pageTask EXCEPT ![p] = "running"]
  /\ pageReq' = [pageReq EXCEPT ![p] = @ + 1]
  /\ UNCHANGED <<apiVars, pc, listVars, pageResult, pagePre, pageFin,
                 detVars, outVars>>
  /\ UNCHANGED histVars

\* FinishPage whose worker extends all_branches itself
FinishPageAppends(p) ==
  /\ pageTask[p] = "running"
  /\ pageTask' = [pageTask EXCEPT ![p] = "done"]
  /\ pageResult' = [pageResult EXCEPT ![p] = FetchPage(pageApi[p])]
  /\ pageFin' = IF pc = "pages_loop" THEN Append(pageFin, p) ELSE pageFin
  /\ LET result == FetchPage(pageApi[p])
     IN  all_branches' = IF result.exc \/ RefsRaise(result.value)
                           THEN all_branches
                           ELSE all_branches \o ToRefs(result.value)
  /\ UNCHANGED <<apiVars, pc, branches, pagePre, pageReq, detVars, outVars>>
  /\ UNCHANGED histVars

\* FinishPage whose fetch_page repeats the request once after a failure status
FinishPageRetrying(p) ==
  /\ pageTask[p] = "running"
  /\ IF RaisesForStatus(pageApi[p]) /\ pageReq[p] < 2
       THEN /\ pageReq' = [pageReq EXCEPT ![p] = @ + 1]
            /\ UNCHANGED <<pageTask, pageResult, pageFin>>
       ELSE /\ pageTask' = [pageTask EXCEPT ![p] = "done"]
            /\ pageResult' = [pageResult EXCEPT ![p] = FetchPage(pageApi[p])]
            /\ pageFin' = IF pc = "pages_loop" THEN Append(pageFin, p) ELSE pageFin
            /\ UNCHANGED pageReq
  /\ UNCHANGED <<apiVars, pc, listVars, pagePre, detVars, outVars>>
  /\ UNCHANGED histVars

\* lines 31-33: the response arrives and the future is finished; a future
\* that as_completed is already waiting on is queued for the main thread
FinishPage(p) ==
  /\ pageTask[p] = "running"
  /\ pageTask' = [pageTask EXCEPT ![p] = "done"]
  /\ pageResult' = [pageResult EXCEPT ![p] = FetchPage(pageApi[p])]
  /\ pageFin' = IF pc = "pages_loop" THEN Append(pageFin, p) ELSE pageFin
  /\ UNCHANGED <<apiVars, pc, listVars, pagePre, pageReq, detVars, outVars>>
  /\ UNCHANGED histVars

\* line 41: as_completed starts; the futures already finished are set aside
BeginPages ==
  /\ pc = "pages_submitted"
  /\ pagePre' = {p \in PageIds : pageTask[p] = "done"}
  /\ pc' = "pages_loop"
  /\ UNCHANGED <<apiVars, listVars, pageTask, pageResult, pageFin, pageReq,
                 detVars, outVars>>
  /\ UNCHANGED histVars

\* RECURSIVE helper of MergePageItemwise: the refs before the first bad item
RECURSIVE RefsUntilBad(_)
RefsUntilBad(items) ==
  IF items = <<>> \/ ~HasRefKeys(Head(items))
    THEN <<>>
    ELSE <<ToRef(Head(items))>> \o RefsUntilBad(Tail(items))

\* MergePage that appends item by item, so a page that raises on a later
\* item has already contributed its earlier ones
MergePageItemwise(result, acc) ==
  IF result.exc THEN acc ELSE acc \o RefsUntilBad(result.value)

\* MergePage that puts the page's branches in front of the list
MergePageInFront(result, acc) ==
  IF result.exc \/ result.value = <<>> \/ RefsRaise(result.value)
    THEN acc
    ELSE ToRefs(result.value) \o acc

\* lines 42-51 for the future of page p: what happens to all_branches
MergePage(result, acc) ==
  IF result.exc \/ result.value = <<>> \/ RefsRaise(result.value)
    THEN acc
    ELSE acc \o ToRefs(result.value)

\* StopsLoop of a loop that has `continue` where line 45 has `break`
StopsLoopNever(result) ==
  FALSE

\* StopsLoop of a loop that also leaves on a failed page
StopsLoopOnFailure(result) ==
  result.exc \/ result.value = <<>>

\* lines 44-45: `if not branches: break`
StopsLoop(result) == ~result.exc /\ result.value = <<>>

\* ConsumePage whose break also cancels the tasks no worker has taken yet
\* (shutdown(cancel_futures=True))
ConsumePageCancelling(p) ==
  /\ pc = "pages_loop"
  /\ \/ p \in pagePre
     \/ pagePre = {} /\ pageFin # <<>> /\ p = Head(pageFin)
  /\ all_branches' = MergePage(pageResult[p], all_branches)
  /\ IF StopsLoop(pageResult[p])
       THEN /\ pc' = "pages_exit"
            /\ pagePre' = {}
            /\ pageFin' = <<>>
            /\ pageTask' = [q \in PageIds |->
                              IF pageTask[q] = "queued" THEN "none" ELSE pageTask[q]]
       ELSE /\ pc' = "pages_loop"
            /\ pagePre' = pagePre \ {p}
            /\ pageFin' = IF p \in pagePre THEN pageFin ELSE Tail(pageFin)
            /\ UNCHANGED pageTask
  /\ UNCHANGED <<apiVars, branches, pageResult, pageReq, detVars, outVars>>
  /\ pageSeen' = Recorded(pageSeen, p)
  /\ UNCHANGED <<recording, detDone, detPreCount>>

\* lines 41-51: one iteration of the loop over as_completed
ConsumePage(p) ==
  /\ pc = "pages_loop"
  /\ \/ p \in pagePre
     \/ pagePre = {} /\ pageFin # <<>> /\ p = Head(pageFin)
  /\ all_branches' = MergePage(pageResult[p], all_branches)
  /\ IF StopsLoop(pageResult[p])
       THEN \* break: the as_completed generator is dropped with what it held
            /\ pc' = "pages_exit"
            /\ pagePre' = {}
            /\ pageFin' = <<>>
       ELSE /\ pc' = "pages_loop"
            /\ pagePre' = pagePre \ {p}
            /\ pageFin' = IF p \in pagePre THEN pageFin ELSE Tail(pageFin)
  /\ UNCHANGED <<apiVars, branches, pageTask, pageResult, pageReq, detVars, outVars>>
  /\ pageSeen' = Recorded(pageSeen, p)
  /\ UNCHANGED <<recording, detDone, detPreCount>>

\* as_completed has yielded every future it was given
PagesExhausted ==
  /\ pagePre = {}
  /\ pageFin = <<>>
  /\ \A p \in PageIds : pageTask[p] \in {"none", "done"}

\* ReturnBranches that leaves the pool without waiting (shutdown(wait=False))
ReturnBranchesNoWait ==
  /\ \/ pc = "pages_exit"
     \/ pc = "pages_loop" /\ PagesExhausted
  /\ branches' = all_branches
  /\ pc' = "details"
  /\ UNCHANGED <<apiVars, all_branches, pageVars, detVars, outVars>>
  /\ UNCHANGED histVars

\* lines 35, 53, 105-106: the with-block is left, which waits for every
\* submitted task; get_branches returns
ReturnBranches ==
  /\ \/ pc = "pages_exit"
     \/ pc = "pages_loop" /\ PagesExhausted
  /\ \A p \in PageIds : pageTask[p] \in {"none", "done"}
  /\ branches' = all_branches
  /\ pc' = "details"
  /\ UNCHANGED <<apiVars, all_branches, pageVars, detVars, outVars>>
  /\ UNCHANGED histVars

---------------------------------------------------------------------------
(* get_branch_details, lines 55-97                                         *)

\* lines 108, 56, 77-83: one task per element of branches is submitted
SubmitDetails ==
  /\ pc = "details"
  /\ detTask' = [i \in 1..Len(branches) |-> "queued"]
  /\ detResult' = [i \in 1..Len(branches) |-> <<>>]
  /\ detReq' = [i \in 1..Len(branches) |-> 0]
  /\ pc' = "details_submitted"
  /\ UNCHANGED <<apiVars, listVars, pageVars, detPre, detFin, outVars>>
  /\ UNCHANGED histVars

DetailWorkerFree ==
  Cardinality({i \in DOMAIN detTask : detTask[i] = "running"}) < DefaultWorkers

\* a pool worker takes the oldest queued task and issues its request (line 61)
StartDetail(i) ==
  /\ detTask[i] = "queued"
  /\ i = Min({j \in DOMAIN detTask : detTask[j] = "queued"})
  /\ DetailWorkerFree
  /\ detTask' = [detTask EXCEPT ![i] = "running"]
  /\ detReq' = [detReq EXCEPT ![i] = @ + 1]
  /\ UNCHANGED <<apiVars, pc, listVars, pageVars, detResult, detPre, detFin, outVars>>
  /\ UNCHANGED histVars

\* FinishDetail whose closure reads the last submitted branch's response
FinishDetailLastBranch(i) ==
  /\ detTask[i] = "running"
  /\ detTask' = [detTask EXCEPT ![i] = "done"]
  /\ detResult' = [detResult EXCEPT
                     ![i] = FetchBranchDetails(
                              detailApi[branches[Len(branches)].branch_name],
                              branches[i])]
  /\ detFin' = IF pc = "details_loop" THEN Append(detFin, i) ELSE detFin
  /\ UNCHANGED <<apiVars, pc, listVars, pageVars, detPre, detReq, outVars>>
  /\ detDone' = Recorded(detDone, i)
  /\ UNCHANGED <<recording, pageSeen, detPreCount>>

\* lines 61-75: the response arrives, fetch_branch_details returns and the
\* future is finished
FinishDetail(i) ==
  /\ detTask[i] = "running"
  /\ detTask' = [detTask EXCEPT ![i] = "done"]
  /\ detResult' = [detResult EXCEPT
                     ![i] = FetchBranchDetails(detailApi[branches[i].branch_name],
                                               branches[i])]
  /\ detFin' = IF pc = "details_loop" THEN Append(detFin, i) ELSE detFin
  /\ UNCHANGED <<apiVars, pc, listVars, pageVars, detPre, detReq, outVars>>
  /\ detDone' = Recorded(detDone, i)
  /\ UNCHANGED <<recording, pageSeen, detPreCount>>

\* lines 85-86: as_completed starts; the futures already finished are set aside
BeginDetails ==
  /\ pc = "details_submitted"
  /\ detPre' = {i \in DOMAIN detTask : detTask[i] = "done"}
  /\ pc' = "details_loop"
  /\ UNCHANGED <<apiVars, listVars, pageVars, detTask, detResult, detFin, detReq,
                 outVars>>
  /\ detPreCount' = Len(detDone)
  /\ UNCHANGED <<recording, pageSeen, detDone>>

\* MergeDetail that keeps one record per branch name
MergeDetailDedup(result, acc) ==
  IF result = <<>> \/ \E k \in 1..Len(acc) : acc[k].branch_name = result[1].branch_name
    THEN acc
    ELSE Append(acc, result[1])

\* lines 91-93: `if result: all_branch_details.append(result)`
MergeDetail(result, acc) ==
  IF result = <<>> THEN acc ELSE Append(acc, result[1])

\* ConsumeDetail that may take any finished future, whether or not an older
\* one is still waiting to be yielded
ConsumeDetailAnyFinished(i) ==
  /\ pc = "details_loop"
  /\ \/ i \in detPre
     \/ \E k \in 1..Len(detFin) : detFin[k] = i
  /\ detPre' = detPre \ {i}
  /\ detFin' = SelectSeq(detFin, LAMBDA x : x # i)
  /\ all_branch_details' = MergeDetail(detResult[i], all_branch_details)
  /\ UNCHANGED <<apiVars, pc, listVars, pageVars, detTask, detResult, detReq,
                 file, fileWrites>>
  /\ UNCHANGED histVars

\* lines 85-95: one iteration of the loop over as_completed
ConsumeDetail(i) ==
  /\ pc = "details_loop"
  /\ \/ i \in detPre
     \/ detPre = {} /\ detFin # <<>> /\ i = Head(detFin)
  /\ detPre' = detPre \ {i}
  /\ detFin' = IF i \in detPre THEN detFin ELSE Tail(detFin)
  /\ all_branch_details' = MergeDetail(detResult[i], all_branch_details)
  /\ UNCHANGED <<apiVars, pc, listVars, pageVars, detTask, detResult, detReq,
                 file, fileWrites>>
  /\ UNCHANGED histVars

\* ReturnDetails that leaves the loop and the pool without waiting for the
\* tasks still queued or in flight
ReturnDetailsNoWait ==
  /\ pc = "details_loop"
  /\ detPre = {}
  /\ detFin = <<>>
  /\ pc' = "write"
  /\ UNCHANGED <<apiVars, listVars, pageVars, detVars, outVars>>
  /\ UNCHANGED histVars

\* lines 79, 97, 108-109: the loop has seen every future, the with-block is
\* left and get_branch_details returns
ReturnDetails ==
  /\ pc = "details_loop"
  /\ detPre = {}
  /\ detFin = <<>>
  /\ \A i \in DOMAIN detTask : detTask[i] = "done"
  /\ pc' = "write"
  /\ UNCHANGED <<apiVars, listVars, pageVars, detVars, outVars>>
  /\ UNCHANGED histVars

\* lines 111-112: branches.json is (over)written with the detail list
WriteFile ==
  /\ pc = "write"
  /\ file' = all_branch_details
  /\ fileWrites' = fileWrites + 1
  /\ pc' = "done"
  /\ UNCHANGED <<apiVars, listVars, pageVars, detVars, all_branch_details>>
  /\ UNCHANGED histVars

---------------------------------------------------------------------------

Next ==
  \/ GetFirstPage
  \/ SubmitPages
  \/ ReturnFirstPage
  \/ \E p \in PageIds : StartPage(p)
  \/ \E p \in PageIds : FinishPage(p)
  \/ BeginPages
  \/ \E p \in PageIds : ConsumePage(p)
  \/ ReturnBranches
  \/ SubmitDetails
  \/ \E i \in DOMAIN detTask : StartDetail(i)
  \/ \E i \in DOMAIN detTask : FinishDetail(i)
  \/ BeginDetails
  \/ \E i \in DOMAIN detTask : ConsumeDetail(i)
  \/ ReturnDetails
  \/ WriteFile

Spec == Init /\ [][Next]_vars

---------------------------------------------------------------------------
(* Vocabulary of the properties                                            *)

\* get_branches has returned to __main__
ListingReturned ==
  pc \in {"details", "details_submitted", "details_loop", "write", "done"}

\* get_branch_details has returned to __main__
DetailsReturned == pc \in {"write", "done"}

\* the API answers page p with a success status and a list of well-formed items
PageSucceeds(p) ==
  /\ pageApi[p].status = HTTP_OK
  /\ \A j \in 1..Len(pageApi[p].json) :
       /\ "name" \in DOMAIN pageApi[p].json[j]
       /\ "commit" \in DOMAIN pageApi[p].json[j]

\* the API answers page p with a success status and the empty list
PageEmpty(p) == pageApi[p].status = HTTP_OK /\ pageApi[p].json = <<>>

PageOneFull == PageSucceeds(1) /\ Len(pageApi[1].json) = PerPage

\* the BranchRef the spec derives from item j of page p
RefOfItem(p, j) ==
  [branch_name |-> pageApi[p].json[j].name,
   commit_sha  |-> pageApi[p].json[j].commit.sha]

\* every item of page p appears in the sequence refs
PageIncluded(p, refs) ==
  \A j \in 1..Len(pageApi[p].json) : \E i \in 1..Len(refs) : refs[i] = RefOfItem(p, j)

\* some item of page p appears in the sequence refs
PageContributes(p, refs) ==
  \E j \in 1..Len(pageApi[p].json) :
    /\ "name" \in DOMAIN pageApi[p].json[j]
    /\ \E i \in 1..Len(refs) : refs[i] = RefOfItem(p, j)

---------------------------------------------------------------------------
(* C1 *)

\* C1: when page 1 is full and page 2 is empty, every page in 3..LastPage
\* that succeeds with a non-empty list is included in the list get_branches
\* returns, whatever the order in which the page tasks complete.
C1_EmptyPageKeepsSiblings ==
  (ListingReturned /\ PageOneFull /\ PageEmpty(2)) =>
    \A p \in 3..LastPage :
      (PageSucceeds(p) /\ ~PageEmpty(p)) => PageIncluded(p, branches)

---------------------------------------------------------------------------
(* C2 *)

\* The run in which the page tasks are seen to complete in page order:
\* lines 41-51 applied to pages p..LastPage one after the other.
RECURSIVE InOrderListing(_, _)
InOrderListing(p, acc) ==
  IF p > LastPage THEN acc
  ELSE IF StopsLoop(FetchPage(pageApi[p])) THEN acc
  ELSE InOrderListing(p + 1, MergePage(FetchPage(pageApi[p]), acc))

\* the list get_branches returns in that run
InOrderBranches ==
  IF MorePages(pageApi[1].json)
    THEN InOrderListing(2, ToRefs(pageApi[1].json))
    ELSE ToRefs(pageApi[1].json)

\* the branch names that run writes to branches.json
InOrderNames ==
  {InOrderBranches[i].branch_name :
     i \in {j \in 1..Len(InOrderBranches) :
              FetchBranchDetails(detailApi[InOrderBranches[j].branch_name],
                                 InOrderBranches[j]) # <<>>}}

\* C2: for fixed API responses, every complete run writes the same set of
\* branch names; stated against the run that completes in page order, which
\* is one of the runs: every complete run writes the names that run writes.
C2_SameNamesEveryRun ==
  pc = "done" => {file[i].branch_name : i \in 1..Len(file)} = InOrderNames

---------------------------------------------------------------------------
(* C3 *)

\* the page-1 request ends with a non-success status
PageOneFails == pageApi[1].status >= 400

\* C3: if the page-1 request fails, get_branches raises with no partial
\* result, and in the whole run no later page is requested, no detail
\* request is issued and branches.json is never written.
C3_FirstPageFailureAborts ==
  PageOneFails =>
    /\ pc \in {"start", "aborted"}
    /\ branches = <<>>
    /\ \A p \in PageIds \ {1} : pageReq[p] = 0 /\ pageTask[p] = "none"
    /\ \A i \in DOMAIN detReq : detReq[i] = 0
    /\ detTask = <<>>
    /\ fileWrites = 0
    /\ file = <<>>

\* the page-1 request was issued, failed, and the run has stopped
C3_Witness ==
  /\ PageOneFails
  /\ pageReq[1] = 1
  /\ pc = "aborted"

---------------------------------------------------------------------------
(* C4 *)

\* the detail request for a branch name succeeds: a success status and
\* every field the record needs
DetailSucceeds(n) ==
  /\ detailApi[n].status = HTTP_OK
  /\ "login" \in DOMAIN detailApi[n].json.commit.author
  /\ "date" \in DOMAIN detailApi[n].json.commit.commit.author
  /\ "message" \in DOMAIN detailApi[n].json.commit.commit
  /\ "protected" \in DOMAIN detailApi[n].json

\* number of elements of refs with the given name and sha
RefCount(refs, n, sha) ==
  Cardinality({i \in 1..Len(refs) :
                 refs[i].branch_name = n /\ refs[i].commit_sha = sha})

\* C4: get_branch_details returns normally whatever fails, and its result
\* holds one record per BranchRef whose fetch succeeded (a duplicated ref
\* once per occurrence) and none for a BranchRef whose fetch failed.
C4_OneRecordPerSuccess ==
  /\ pc = "aborted" => detTask = <<>>
  /\ DetailsReturned =>
       /\ \A i \in 1..Len(branches) :
            RefCount(all_branch_details, branches[i].branch_name,
                     branches[i].commit_sha)
              = IF DetailSucceeds(branches[i].branch_name)
                  THEN RefCount(branches, branches[i].branch_name,
                                branches[i].commit_sha)
                  ELSE 0
       /\ \A k \in 1..Len(all_branch_details) :
            RefCount(branches, all_branch_details[k].branch_name,
                     all_branch_details[k].commit_sha) > 0

\* get_branch_details returned with one branch dropped and one branch name
\* kept twice
C4_Witness ==
  /\ DetailsReturned
  /\ \E i \in 1..Len(branches) : ~DetailSucceeds(branches[i].branch_name)
  /\ \E k, l \in 1..Len(all_branch_details) :
       /\ k # l
       /\ all_branch_details[k].branch_name = all_branch_details[l].branch_name

---------------------------------------------------------------------------
(* C5 *)

\* page p is answered with a failure status or with an item lacking a key
PageFails(p) == ~PageSucceeds(p)

\* C5: only a page-1 failure aborts; a failed later page leaves no branch
\* in the list get_branches returns, and the run goes on.
C5_LaterPageFailureIsolated ==
  /\ pc = "aborted" =>
       /\ PageFails(1)
       /\ \A p \in PageIds : pageTask[p] = "none"
  /\ ListingReturned =>
       \A p \in 2..LastPage : PageFails(p) => ~PageContributes(p, branches)

\* a later page failed after a well-formed item, one failed by status, and
\* the run reached the detail phase with the branches of page 1
C5_Witness ==
  /\ pc = "details_loop"
  /\ \E p \in 2..LastPage : pageApi[p].status >= 400 /\ pageReq[p] = 1
  /\ \E p \in 2..LastPage :
       pageApi[p].status = HTTP_OK /\ PageFails(p) /\ pageReq[p] = 1
  /\ Len(branches) = PerPage

---------------------------------------------------------------------------
(* C6 *)

PageOneShort == PageSucceeds(1) /\ Len(pageApi[1].json) < PerPage

\* C6: if page 1 returns fewer than PerPage branches, no later page is ever
\* requested and get_branches returns exactly the page-1 branches.
C6_ShortFirstPageOnly ==
  PageOneShort =>
    /\ \A p \in PageIds \ {1} : pageReq[p] = 0
    /\ ListingReturned =>
         /\ Len(branches) = Len(pageApi[1].json)
         /\ \A j \in 1..Len(branches) : branches[j] = RefOfItem(1, j)

\* a short, non-empty first page was returned by get_branches
C6_Witness ==
  /\ PageOneShort
  /\ pageApi[1].json # <<>>
  /\ ListingReturned
  /\ branches # <<>>

---------------------------------------------------------------------------
(* C7 *)

\* the request for page p was issued and answered successfully
PageFetched(p) ==
  /\ pageReq[p] > 0
  /\ p = 1 \/ pageTask[p] = "done"
  /\ PageSucceeds(p)

\* ref is the {name, commit.sha} of an item of a successfully fetched page
FromFetchedPage(ref) ==
  \E p \in PageIds :
    /\ PageFetched(p)
    /\ \E j \in 1..Len(pageApi[p].json) : ref = RefOfItem(p, j)

\* refs has an element with the given name and sha
HasRef(refs, n, sha) ==
  \E i \in 1..Len(refs) : refs[i].branch_name = n /\ refs[i].commit_sha = sha

\* C7: every record of the detail result and of the file carries the
\* name/sha of a BranchRef of the listing result, and every BranchRef of
\* the listing result is an item of a successfully fetched page.
C7_NoInventedEntries ==
  /\ \A k \in 1..Len(all_branch_details) :
       HasRef(branches, all_branch_details[k].branch_name,
              all_branch_details[k].commit_sha)
  /\ \A k \in 1..Len(file) :
       HasRef(branches, file[k].branch_name, file[k].commit_sha)
  /\ \A i \in 1..Len(all_branches) : FromFetchedPage(all_branches[i])
  /\ \A i \in 1..Len(branches) : FromFetchedPage(branches[i])

\* the file holds a record of a branch that a later page listed
C7_Witness ==
  /\ pc = "done"
  /\ \E k \in 1..Len(file) : \E p \in 2..LastPage :
       /\ pageApi[p].json # <<>>
       /\ file[k].commit_sha = pageApi[p].json[1].commit.sha

---------------------------------------------------------------------------
(* C8 *)

\* C8: when page 1 is full exactly the pages 2..LastPage are dispatched and
\* requested; no page outside 1..LastPage is ever requested; with at most
\* PerPage items a page the listing never exceeds LastPage * PerPage refs.
C8_PageCap ==
  /\ \A p \in PageIds :
       p \notin 1..LastPage => pageReq[p] = 0 /\ pageTask[p] = "none"
  /\ (PageOneFull /\ pc \notin {"start", "first_page"}) =>
       {p \in PageIds : pageTask[p] # "none"} = 2..LastPage
  /\ (PageOneFull /\ ListingReturned) =>
       \A p \in 2..LastPage : pageReq[p] = 1
  /\ Len(all_branches) <= LastPage * PerPage
  /\ Len(branches) <= LastPage * PerPage

\* a full page 1 and one branch from every later page were returned
C8_Witness ==
  /\ PageOneFull
  /\ ListingReturned
  /\ \A p \in 2..LastPage : pageReq[p] = 1
  /\ Len(branches) = PerPage + (LastPage - 1)

---------------------------------------------------------------------------
(* C9 *)

\* record r carries the author, date and protection flag of the response to
\* the detail request for r's own branch, and the name/sha of a listed ref
OwnResponseFields(r) ==
  /\ DetailSucceeds(r.branch_name)
  /\ r.author = detailApi[r.branch_name].json.commit.author.login
  /\ r.last_updated = detailApi[r.branch_name].json.commit.commit.author.date
  /\ r.is_protected = detailApi[r.branch_name].json.protected
  /\ \E i \in 1..Len(branches) :
       branches[i].branch_name = r.branch_name /\ branches[i].commit_sha = r.commit_sha

\* C9: every record's derived fields are those of the response to the
\* detail request for that record's branch, passed through unchanged; no
\* record pairs a BranchRef with the response of another task.
C9_FieldsFromOwnResponse ==
  /\ \A k \in 1..Len(all_branch_details) : OwnResponseFields(all_branch_details[k])
  /\ \A k \in 1..Len(file) : OwnResponseFields(file[k])

\* the file holds {main, 1, alice, merged} and {dev, 2, bob, not merged}
C9_Witness ==
  /\ pc = "done"
  /\ \E k, l \in 1..Len(file) :
       /\ file[k] = [branch_name |-> "main", commit_sha |-> 1, author |-> "alice",
                     last_updated |-> "2024-01-01T00:00:00Z",
                     is_merged |-> TRUE, is_protected |-> TRUE]
       /\ file[l] = [branch_name |-> "dev", commit_sha |-> 2, author |-> "bob",
                     last_updated |-> "2024-02-02T00:00:00Z",
                     is_merged |-> FALSE, is_protected |-> FALSE]

---------------------------------------------------------------------------
(* C10: every commit message, one branch                                   *)

MsgAlphabet == {"M", "m", "e", "r", "g"}

\* every message of at most MaxMsgLen characters over the alphabet, and the
\* three messages of the specification's examples
Messages ==
  UNION {[1..k -> MsgAlphabet] : k \in 0..MaxMsgLen}
    \cup {M_MergePR, M_mergefoo, M_FixBug}

\* a repository of one branch whose head commit has any of the messages
InitMsg ==
  /\ pageApi = [p \in PageIds |-> PageResponse(p, IF p = 1 THEN 1 ELSE 0, 2)]
  /\ \E msg \in Messages :
       detailApi = [n \in Names |-> DetailResponse(n, 2, msg)]
  /\ recording = FALSE
  /\ InitProgram

NextMsg ==
  \/ GetFirstPage
  \/ ReturnFirstPage
  \/ SubmitDetails
  \/ \E i \in DOMAIN detTask : StartDetail(i)
  \/ \E i \in DOMAIN detTask : FinishDetail(i)
  \/ BeginDetails
  \/ \E i \in DOMAIN detTask : ConsumeDetail(i)
  \/ ReturnDetails
  \/ WriteFile

SpecMsg == InitMsg /\ [][NextMsg]_vars

\* the commit message the API reports for branch name n
MessageOf(n) == detailApi[n].json.commit.commit.message

\* msg has at least five characters and they are M, e, r, g, e
BeginsWithMerge(msg) ==
  /\ Len(msg) >= 5
  /\ msg[1] = "M" /\ msg[2] = "e" /\ msg[3] = "r" /\ msg[4] = "g" /\ msg[5] = "e"

\* C10: a record's is_merged is true exactly when the commit message begins
\* with the case-sensitive prefix "Merge"; so it is true for "Merge pull
\* request #1", false for "merge foo" and "Fix bug", and false for every
\* message shorter than five characters.
C10_IsMergedIffPrefix ==
  \A k \in 1..Len(all_branch_details) :
    /\ all_branch_details[k].is_merged
         <=> BeginsWithMerge(MessageOf(all_branch_details[k].branch_name))
    /\ MessageOf(all_branch_details[k].branch_name) = M_MergePR
         => all_branch_details[k].is_merged
    /\ MessageOf(all_branch_details[k].branch_name) \in {M_mergefoo, M_FixBug}
         => ~all_branch_details[k].is_merged
    /\ Len(MessageOf(all_branch_details[k].branch_name)) < 5
         => ~all_branch_details[k].is_merged

\* a record was written for a message that only differs from "Merge..." in
\* the case of its first letter
C10_Witness ==
  /\ pc = "done"
  /\ Len(file) = 1
  /\ MessageOf(file[1].branch_name) = <<"m", "e", "r", "g", "e", "M">>
  /\ ~file[1].is_merged

---------------------------------------------------------------------------
(* C11 *)

\* a submitted page task is still waiting for a worker or for its response
PagePoolActive == \E p \in PageIds : pageTask[p] \in {"queued", "running"}

\* a submitted detail task is still waiting for a worker or for its response
DetailPoolActive == \E i \in DOMAIN detTask : detTask[i] \in {"queued", "running"}

\* a branch-detail request has been issued
DetailRequested == \E i \in DOMAIN detReq : detReq[i] > 0

\* the loop of lines 41-51 was left by the break while a page that succeeds
\* with branches was left out of the result
StoppedEarly ==
  /\ PageOneFull
  /\ \E p \in LaterPages : PageEmpty(p)
  /\ \E q \in LaterPages :
       PageSucceeds(q) /\ ~PageEmpty(q) /\ ~PageIncluded(q, all_branches)

\* C11: no branch-detail request is issued, and no detail task exists, while
\* a submitted page task is pending or in flight, also when the loop over the
\* page tasks was left early after an empty page; the two pools are never
\* active at the same time.
C11_PhaseBarrier ==
  /\ (DetailRequested \/ detTask # <<>>) => ~PagePoolActive
  /\ ~(PagePoolActive /\ DetailPoolActive)

\* a detail request is in flight after a listing that stopped early
C11_Witness ==
  /\ StoppedEarly
  /\ ListingReturned
  /\ \E i \in DOMAIN detTask : detTask[i] = "running" /\ detReq[i] = 1

---------------------------------------------------------------------------
(* get_branches on its own, lines 15-53, with the order of the yielded     *)
(* pages recorded and with fair scheduling                                 *)

\* every listing API; the detail endpoint answers every branch
InitPages ==
  /\ pageApi \in PageApis
  /\ detailApi = [n \in Names |-> DetailResponse(n, 2, CatalogueMessage(n))]
  /\ recording = TRUE
  /\ InitProgram

\* the steps of the main thread inside get_branches
ListingMainStep ==
  \/ GetFirstPage
  \/ SubmitPages
  \/ ReturnFirstPage
  \/ BeginPages
  \/ \E p \in PageIds : ConsumePage(p)
  \/ ReturnBranches

NextPages ==
  \/ ListingMainStep
  \/ \E p \in PageIds : StartPage(p)
  \/ \E p \in PageIds : FinishPage(p)

\* lines 35-39: the main thread and the pool's worker threads are scheduled
\* fairly, and every request that was issued (line 31) receives its response
FairPages ==
  /\ WF_vars(ListingMainStep)
  /\ WF_vars(\E p \in PageIds : StartPage(p))
  /\ WF_vars(\E p \in PageIds : FinishPage(p))

SpecPages == InitPages /\ [][NextPages]_vars /\ FairPages

\* the pages as_completed has yielded to the loop of line 41
SeenPages == {pageSeen[k] : k \in 1..Len(pageSeen)}

---------------------------------------------------------------------------
(* C12 *)

\* C12: once the page tasks are submitted, every page in 2..LastPage has its
\* request issued, exactly once, and its task runs to completion, also after
\* another page has failed or an empty page has been seen; no submitted task
\* goes back to being unsubmitted, and get_branches does not return before
\* all of them are complete.
C12_NoEarlyCancellation ==
  /\ \A p \in LaterPages :
       (pageTask[p] = "queued") ~> (pageTask[p] = "done" /\ pageReq[p] = 1)
  /\ [][\A p \in LaterPages : pageTask[p] # "none" => pageTask'[p] # "none"]_vars
  /\ [](ListingReturned /\ PageOneFull =>
          \A p \in LaterPages : pageTask[p] = "done" /\ pageReq[p] = 1)

\* get_branches has returned after the break on an empty page; a page the
\* loop never saw was requested and completed all the same, and so was a
\* page that failed
C12_Witness ==
  /\ pc = "details"
  /\ \E p \in LaterPages : PageEmpty(p) /\ p \in SeenPages
  /\ \E q \in LaterPages :
       /\ q \notin SeenPages
       /\ pageTask[q] = "done"
       /\ pageReq[q] = 1

---------------------------------------------------------------------------
(* C13 *)

\* the page requests in flight
PagesInFlight == {p \in PageIds : pageTask[p] = "running"}

\* C13: at most MaxWorkers page requests are in flight at the same time,
\* although all the page tasks of 2..LastPage are submitted at once.
C13_BoundedListingConcurrency == Cardinality(PagesInFlight) <= MaxWorkers

\* the pool is saturated: MaxWorkers requests in flight and a submitted task
\* waits for a worker
C13_Witness ==
  /\ Cardinality(PagesInFlight) = MaxWorkers
  /\ \E p \in LaterPages : pageTask[p] = "queued"

---------------------------------------------------------------------------
(* C14 *)

\* s is an initial part of t
IsPrefix(s, t) == Len(s) <= Len(t) /\ SubSeq(t, 1, Len(s)) = s

\* this step is taken by a worker of the page pool: a task is started or finished
PageWorkerStep ==
  \E p \in PageIds : pageTask[p] \in {"queued", "running"} /\ pageTask'[p] # pageTask[p]

\* this step is taken by a worker of the detail pool
DetailWorkerStep ==
  \E i \in DOMAIN detTask : i \in DOMAIN detTask' /\ detTask'[i] # detTask[i]

\* C14: a step of a pool worker changes neither all_branches nor
\* all_branch_details; each list only grows at its end; all_branches grows
\* by all the branches of one page at once, a page none of whose branches
\* it holds yet; all_branch_details grows by one record, the result of one
\* detail task.
C14_SingleWriter ==
  [][/\ (PageWorkerStep \/ DetailWorkerStep) =>
          UNCHANGED <<all_branches, all_branch_details>>
     /\ IsPrefix(all_branches, all_branches')
     /\ IsPrefix(all_branch_details, all_branch_details')
     /\ all_branches' # all_branches =>
          \E p \in PageIds :
            /\ PageSucceeds(p)
            /\ ~PageContributes(p, all_branches)
            /\ all_branches' = all_branches \o ToRefs(pageApi[p].json)
     /\ all_branch_details' # all_branch_details =>
          \E i \in DOMAIN detTask :
            /\ detTask[i] = "done"
            /\ all_branch_details' = all_branch_details \o detResult[i]
    ]_vars

\* both lists were built from several units: page 1 and two later pages,
\* and at least two records
C14_Witness ==
  /\ pc = "done"
  /\ Len(all_branches) > PerPage + 1
  /\ Len(all_branch_details) > 1

---------------------------------------------------------------------------
(* C15 *)

\* the branches of page p in the order of the response, nothing for a page
\* that fails
BlockOfPage(p) ==
  IF PageSucceeds(p)
    THEN [j \in 1..Len(pageApi[p].json) |-> RefOfItem(p, j)]
    ELSE <<>>

\* the blocks of the pages of the sequence ps, one after the other
RECURSIVE BlocksOfPages(_)
BlocksOfPages(ps) ==
  IF ps = <<>> THEN <<>> ELSE BlockOfPage(Head(ps)) \o BlocksOfPages(Tail(ps))

\* C15: the listing result starts with the page-1 branches in response
\* order, followed by one contiguous block per later page that was taken in,
\* each in its in-page order, the blocks in the order in which the loop saw
\* the page tasks complete, which need not be the order of the page numbers.
C15_ListingOrder ==
  /\ pc \notin {"start", "aborted"} =>
       all_branches = BlockOfPage(1) \o BlocksOfPages(pageSeen)
  /\ ListingReturned => branches = all_branches

\* a higher page was seen complete before a lower one and both contributed
C15_Witness ==
  /\ ListingReturned
  /\ \E k, l \in 1..Len(pageSeen) :
       /\ k < l
       /\ pageSeen[k] > pageSeen[l]
       /\ BlockOfPage(pageSeen[k]) # <<>>
       /\ BlockOfPage(pageSeen[l]) # <<>>
       /\ PageIncluded(pageSeen[k], branches)
       /\ PageIncluded(pageSeen[l], branches)

---------------------------------------------------------------------------
(* C18 *)

\* C18: when the loop has seen a page task complete with the empty list, that
\* page is the last one it sees: the loop is over, and all_branches is, from
\* then on, page 1 followed by the blocks of the pages seen before it; this
\* is the list get_branches returns.
C18_EarlyStopOnEmptyPage ==
  \A k \in 1..Len(pageSeen) :
    PageEmpty(pageSeen[k]) =>
      /\ k = Len(pageSeen)
      /\ pc # "pages_loop"
      /\ all_branches = BlockOfPage(1) \o BlocksOfPages(SubSeq(pageSeen, 1, k - 1))
      /\ ListingReturned => branches = all_branches

\* get_branches has returned after the break; a page with branches that the
\* loop had not seen yet is missing from the result
C18_Witness ==
  /\ ListingReturned
  /\ \E k \in 1..Len(pageSeen) : PageEmpty(pageSeen[k])
  /\ \E q \in LaterPages :
       /\ q \notin SeenPages
       /\ BlockOfPage(q) # <<>>
       /\ ~PageContributes(q, branches)

---------------------------------------------------------------------------
(* C19 *)

\* the branches of the pages 1..LastPage whose request succeeds
RefsOfSucceedingPages ==
  UNION {{RefOfItem(p, j) : j \in 1..Len(pageApi[p].json)} :
           p \in {q \in 1..LastPage : PageSucceeds(q)}}

\* C19: when page 1 is full and no page of 2..LastPage is empty, the list
\* get_branches returns holds every branch of page 1 and of every later page
\* whose request succeeds exactly once, and nothing else, whatever the order
\* in which the page tasks complete.
C19_CompleteWithoutEmptyPage ==
  (ListingReturned /\ PageOneFull /\ \A p \in LaterPages : ~PageEmpty(p)) =>
    /\ \A ref \in RefsOfSucceedingPages :
         RefCount(branches, ref.branch_name, ref.commit_sha) = 1
    /\ \A i \in 1..Len(branches) : branches[i] \in RefsOfSucceedingPages

\* a later page failed, a later page succeeded, and the loop saw the failure
\* first
C19_Witness ==
  /\ ListingReturned
  /\ PageOneFull
  /\ \A p \in LaterPages : ~PageEmpty(p)
  /\ \E k, l \in 1..Len(pageSeen) :
       /\ k < l
       /\ ~PageSucceeds(pageSeen[k])
       /\ PageSucceeds(pageSeen[l])
       /\ PageIncluded(pageSeen[l], branches)

---------------------------------------------------------------------------
(* C17 *)

\* C17: no page number is requested more than once; no detail task issues
\* more than one request,
\* and when get_branch_details has returned, exactly one request was issued
\* for each element of the listing result; a page or a branch whose request
\* failed is absent from what the run produces.
C17_NoRetries ==
  /\ \A p \in PageIds : pageReq[p] <= 1
  /\ \A i \in DOMAIN detReq : detReq[i] <= 1
  /\ DetailsReturned =>
       /\ DOMAIN detReq = 1..Len(branches)
       /\ \A i \in DOMAIN detReq : detReq[i] = 1
  /\ pc = "done" =>
       /\ \A p \in LaterPages :
            (pageApi[p].status # HTTP_OK) => ~PageContributes(p, branches)
       /\ \A i \in 1..Len(branches) :
            (detailApi[branches[i].branch_name].status # HTTP_OK) =>
              ~HasRef(file, branches[i].branch_name, branches[i].commit_sha)

\* the run is over; a page request and a detail request failed and each was
\* issued once
C17_Witness ==
  /\ pc = "done"
  /\ \E p \in LaterPages : pageApi[p].status # HTTP_OK /\ pageReq[p] = 1
  /\ \E i \in 1..Len(branches) :
       /\ detailApi[branches[i].branch_name].status # HTTP_OK
       /\ detReq[i] = 1

---------------------------------------------------------------------------
(* The run on a repository of PerPage branches, with the order in which    *)
(* the detail tasks finish recorded                                        *)

\* page 1 is full and every later page is empty; every detail API
InitOrder ==
  /\ pageApi = [p \in PageIds |-> PageResponse(p, IF p = 1 THEN PerPage ELSE 0, 2)]
  /\ detailApi \in DetailApis
  /\ recording = TRUE
  /\ InitProgram

NextOrder ==
  \/ GetFirstPage
  \/ SubmitPages
  \/ \E p \in PageIds : StartPage(p)
  \/ \E p \in PageIds : FinishPage(p)
  \/ BeginPages
  \/ \E p \in PageIds : ConsumePage(p)
  \/ ReturnBranches
  \/ SubmitDetails
  \/ \E i \in DOMAIN detTask : StartDetail(i)
  \/ \E i \in DOMAIN detTask : FinishDetail(i)
  \/ BeginDetails
  \/ \E i \in DOMAIN detTask : ConsumeDetail(i)
  \/ ReturnDetails
  \/ WriteFile

SpecOrder == InitOrder /\ [][NextOrder]_vars

---------------------------------------------------------------------------
(* C16 *)

\* the detail task that produced record r (the listing holds each ref once)
TaskOfRecord(r) ==
  CHOOSE i \in 1..Len(branches) :
    branches[i].branch_name = r.branch_name /\ branches[i].commit_sha = r.commit_sha

\* the place of task i in the order in which the detail tasks finished
FinishRank(i) == CHOOSE k \in 1..Len(detDone) : detDone[k] = i

\* task i had finished when the loop of line 85 began
FinishedBeforeLoop(i) == FinishRank(i) <= detPreCount

\* C16 as stated: the records of the detail result appear in the order in
\* which their fetch tasks completed.
C16_CompletionOrder ==
  \A k, l \in 1..Len(all_branch_details) :
    k < l =>
      FinishRank(TaskOfRecord(all_branch_details[k]))
        < FinishRank(TaskOfRecord(all_branch_details[l]))

\* C16 amended: the records of the detail result appear in the order in which
\* as_completed yields their tasks: the records of the tasks that had
\* finished when the loop began come first, in any order, and the records of
\* the other tasks follow in the order in which those tasks completed.
C16_YieldOrder ==
  \A k, l \in 1..Len(all_branch_details) :
    k < l =>
      LET a == TaskOfRecord(all_branch_details[k])
          b == TaskOfRecord(all_branch_details[l])
      IN  \/ FinishRank(a) < FinishRank(b)
          \/ FinishedBeforeLoop(a) /\ FinishedBeforeLoop(b)

\* the result holds two records in an order that is neither the order of
\* submission nor the order of completion
C16_Witness ==
  \E k, l \in 1..Len(all_branch_details) :
    LET a == TaskOfRecord(all_branch_details[k])
        b == TaskOfRecord(all_branch_details[l])
    IN  /\ k < l
        /\ a > b
        /\ FinishRank(a) > FinishRank(b)
        /\ FinishedBeforeLoop(a)

---------------------------------------------------------------------------
(* The whole run with fair scheduling                                      *)

\* the steps of the main thread from get_branch_details on
DetailsMainStep ==
  \/ SubmitDetails
  \/ BeginDetails
  \/ \E i \in DOMAIN detTask : ConsumeDetail(i)
  \/ ReturnDetails
  \/ WriteFile

\* lines 79-83: the main thread and the workers of the detail pool are
\* scheduled fairly, and every detail request that was issued (line 61)
\* receives its response
FairDetails ==
  /\ WF_vars(DetailsMainStep)
  /\ WF_vars(\E i \in DOMAIN detTask : StartDetail(i))
  /\ WF_vars(\E i \in DOMAIN detTask : FinishDetail(i))

SpecFair == Init /\ [][Next]_vars /\ FairPages /\ FairDetails

---------------------------------------------------------------------------
(* C20 *)

\* a detail request is in flight
DetailInFlight == \E i \in DOMAIN detTask : detTask[i] = "running"

\* C20: when every issued request receives its response and scheduling is
\* fair, a run whose page-1 request succeeds reaches the end with
\* branches.json written exactly once and every detail task complete; the
\* file is never written twice, and never while a detail task is incomplete;
\* as long as a page request is in flight get_branches has not returned, and
\* as long as a detail request is in flight get_branch_details has not
\* returned and the file is not written.
C20_Termination ==
  /\ (pc = "start" /\ PageSucceeds(1)) ~>
       (pc = "done" /\ fileWrites = 1 /\ ~DetailPoolActive)
  /\ [](fileWrites <= 1)
  /\ [](fileWrites = 1 => pc = "done" /\ ~DetailPoolActive)
  /\ []((\E p \in PageIds : pageTask[p] = "running") =>
          ~ListingReturned /\ fileWrites = 0)
  /\ [](DetailInFlight => ~DetailsReturned /\ fileWrites = 0)

\* the run is over after both phases: pages were fetched by the pool, several
\* detail tasks ran, and the file was written once
C20_Witness ==
  /\ pc = "done"
  /\ fileWrites = 1
  /\ PageOneFull
  /\ \A p \in LaterPages : pageTask[p] = "done"
  /\ Len(detTask) > 1
  /\ \A i \in DOMAIN detTask : detTask[i] = "done"

====
